---- MODULE Spec2Model ----
(***************************************************************************)
(* WikidAI backend: the SPARQL validator, the WikidataAgent, the           *)
(* GeminiOrchestrator function-calling loop and the POST /api/query        *)
(* handler with its ConversationManager, as a state machine.               *)
(*                                                                         *)
(* A string of the program is a TLA+ string; where the program looks       *)
(* inside a string (toUpperCase, includes, startsWith) Chars gives its     *)
(* characters.  A message built by a template literal is the sequence of   *)
(* its fragments, and concatenation is \o.                                 *)
(***************************************************************************)
EXTENDS Integers, Sequences, FiniteSets, TLC

(***************************************************************************)
(* State.                                                                  *)
(*   now            the clock, Date.now()                                  *)
(*   nextId         the next identifier of generateId                      *)
(*   conversations  ConversationManager.conversations                      *)
(*   maxConversations  ConversationManager.maxConversations                *)
(*   log            the lines of the last call of the ConversationManager  *)
(*                  that wrote to console.log                              *)
(*   reply          the response of the last conversation endpoint served  *)
(*   handler[r]     the POST /api/query handler serving request r          *)
(*   run[r]         the executeQuery call of request r                     *)
(***************************************************************************)
VARIABLES now, nextId, conversations, maxConversations, log, reply, handler, run

(***************************************************************************)
(* Bounds of the model.                                                    *)
(***************************************************************************)
\* The most function calls one model response requests.
MaxBatch ==
    2
\* The most calls of declared tools the model requests during one run.
MaxInvocations ==
    2
\* The last turn in which the model requests declared tools.
MaxToolTurns ==
    2
\* The most thought parts the model emits during one run.
MaxThoughts ==
    1
\* The largest value of the clock Date.now().
MaxTime ==
    1
\* The most messages of a conversation at which a query is still accepted.
MaxMessages ==
    2
\* The maxConversations of the server's ConversationManager: the default of
\* the constructor (100), scaled down.
DefaultMaxConversations ==
    1
\* The maxConversations of a ConversationManager driven call by call.
StoreMaxConversations ==
    2

(***************************************************************************)
(* Characters of the strings the program inspects.                         *)
(***************************************************************************)
Chars(s) ==
    CASE s = "DELETE" -> <<"D", "E", "L", "E", "T", "E">>
    [] s = "INSERT" -> <<"I", "N", "S", "E", "R", "T">>
    [] s = "DROP" -> <<"D", "R", "O", "P">>
    [] s = "CREATE" -> <<"C", "R", "E", "A", "T", "E">>
    [] s = "CLEAR" -> <<"C", "L", "E", "A", "R">>
    [] s = "LOAD" -> <<"L", "O", "A", "D">>
    [] s = "ASK{?s ?p ?o}" -> <<"A", "S", "K", "{", "?", "s", " ", "?", "p", " ", "?", "o", "}">>
    [] s = "ASK{?s ?p ?o" -> <<"A", "S", "K", "{", "?", "s", " ", "?", "p", " ", "?", "o">>
    [] s = "drop all" -> <<"d", "r", "o", "p", " ", "a", "l", "l">>
    [] s = "DELETE WHERE{" -> <<"D", "E", "L", "E", "T", "E", " ", "W", "H", "E", "R", "E", "{">>
    [] s = "COPY DEFAULT TO <urn:g>" -> <<"C", "O", "P", "Y", " ", "D", "E", "F", "A", "U", "L", "T", " ", "T", "O", " ", "<", "u", "r", "n", ":", "g", ">">>
    [] s = "ASK{?s ?p 'Load'}" -> <<"A", "S", "K", "{", "?", "s", " ", "?", "p", " ", "'", "L", "o", "a", "d", "'", "}">>
    [] s = "Population of Tokyo?" -> <<"P", "o", "p", "u", "l", "a", "t", "i", "o", "n", " ", "o", "f", " ", "T", "o", "k", "y", "o", "?">>
    [] s = "/clear" -> <<"/", "c", "l", "e", "a", "r">>
    [] s = "What are you?" -> <<"W", "h", "a", "t", " ", "a", "r", "e", " ", "y", "o", "u", "?">>
    [] s = "Which rivers flow through both Germany and France?" -> <<"W", "h", "i", "c", "h", " ", "r", "i", "v", "e", "r", "s", " ", "f", "l", "o", "w", " ", "t", "h", "r", "o", "u", "g", "h", " ", "b", "o", "t", "h", " ", "G", "e", "r", "m", "a", "n", "y", " ", "a", "n", "d", " ", "F", "r", "a", "n", "c", "e", "?">>
    [] s = "Which rivers flow through both Germany and Austria?" -> <<"W", "h", "i", "c", "h", " ", "r", "i", "v", "e", "r", "s", " ", "f", "l", "o", "w", " ", "t", "h", "r", "o", "u", "g", "h", " ", "b", "o", "t", "h", " ", "G", "e", "r", "m", "a", "n", "y", " ", "a", "n", "d", " ", "A", "u", "s", "t", "r", "i", "a", "?">>
    [] s = "/help" -> <<"/", "h", "e", "l", "p">>
    [] s = "/how" -> <<"/", "h", "o", "w">>
    [] s = "/stats" -> <<"/", "s", "t", "a", "t", "s">>
    [] s = "/new" -> <<"/", "n", "e", "w">>
    [] s = " /New chat" -> <<" ", "/", "N", "e", "w", " ", "c", "h", "a", "t">>
    [] s = "/explain" -> <<"/", "e", "x", "p", "l", "a", "i", "n">>
    [] s = "come" -> <<"c", "o", "m", "e">>
    [] s = "funzion" -> <<"f", "u", "n", "z", "i", "o", "n">>
    [] s = "how" -> <<"h", "o", "w">>
    [] s = "do" -> <<"d", "o">>
    [] s = "does" -> <<"d", "o", "e", "s">>
    [] s = "you" -> <<"y", "o", "u">>
    [] s = "this" -> <<"t", "h", "i", "s">>
    [] s = "it" -> <<"i", "t">>
    [] s = "work" -> <<"w", "o", "r", "k">>
    [] s = "what" -> <<"w", "h", "a", "t">>
    [] s = "is" -> <<"i", "s">>
    [] s = "are" -> <<"a", "r", "e">>
    [] s = "wikidai" -> <<"w", "i", "k", "i", "d", "a", "i">>
    [] s = "che" -> <<"c", "h", "e">>
    [] s = "cos'" -> <<"c", "o", "s", "'">>
    [] s = "cosè" -> <<"c", "o", "s", "è">>
    [] s = "questo" -> <<"q", "u", "e", "s", "t", "o">>
    [] s = "spiega" -> <<"s", "p", "i", "e", "g", "a">>
    [] s = "spiegami" -> <<"s", "p", "i", "e", "g", "a", "m", "i">>
    [] s = "cosa" -> <<"c", "o", "s", "a">>
    [] s = "explain" -> <<"e", "x", "p", "l", "a", "i", "n">>
    [] s = "fai" -> <<"f", "a", "i">>
    [] s = "can" -> <<"c", "a", "n">>
    [] s = "quali" -> <<"q", "u", "a", "l", "i">>
    [] s = "agenti" -> <<"a", "g", "e", "n", "t", "i">>
    [] s = "fonti" -> <<"f", "o", "n", "t", "i">>
    [] s = "agents" -> <<"a", "g", "e", "n", "t", "s">>
    [] s = "sources" -> <<"s", "o", "u", "r", "c", "e", "s">>
    [] s = "Chat" -> <<"C", "h", "a", "t">>
    [] s = "Conversation " -> <<"C", "o", "n", "v", "e", "r", "s", "a", "t", "i", "o", "n", " ">>
    [] s = "" -> <<>>

LowerCase ==
    <<"a", "b", "c", "d", "e", "f", "g", "h", "i", "j", "k", "l", "m",
      "n", "o", "p", "q", "r", "s", "t", "u", "v", "w", "x", "y", "z">>

UpperCase ==
    <<"A", "B", "C", "D", "E", "F", "G", "H", "I", "J", "K", "L", "M",
      "N", "O", "P", "Q", "R", "S", "T", "U", "V", "W", "X", "Y", "Z">>

\* String.prototype.toUpperCase on a sequence of characters.
toUpperCase(cs) ==
    [i \in 1..Len(cs) |->
        IF \E k \in 1..Len(LowerCase) : LowerCase[k] = cs[i]
        THEN UpperCase[CHOOSE k \in 1..Len(LowerCase) : LowerCase[k] = cs[i]]
        ELSE cs[i]]

\* String.prototype.includes: ks occurs in cs as a contiguous substring.
includes(cs, ks) ==
    \E i \in 0..(Len(cs) - Len(ks)) : \A j \in 1..Len(ks) : cs[i + j] = ks[j]

(***************************************************************************)
(* The query strings the model may pass to query_wikidata, and what the    *)
(* sparqljs parser (SPARQL 1.1 query and update grammar) does with each:   *)
(* it returns the parsed operation or throws with a message.               *)
(***************************************************************************)
SparqlQueries ==
    {"ASK{?s ?p ?o}", "ASK{?s ?p ?o", "drop all", "DELETE WHERE{",
     "COPY DEFAULT TO <urn:g>", "ASK{?s ?p 'Load'}"}

parse(queryString) ==
    CASE queryString = "ASK{?s ?p ?o}" ->
            [ok |-> TRUE, type |-> "query", op |-> "ASK", message |-> ""]
      [] queryString = "ASK{?s ?p 'Load'}" ->
            [ok |-> TRUE, type |-> "query", op |-> "ASK", message |-> ""]
      [] queryString = "drop all" ->
            [ok |-> TRUE, type |-> "update", op |-> "DROP", message |-> ""]
      [] queryString = "COPY DEFAULT TO <urn:g>" ->
            [ok |-> TRUE, type |-> "update", op |-> "COPY", message |-> ""]
      [] queryString = "ASK{?s ?p ?o" ->
            [ok |-> FALSE, type |-> "", op |-> "",
             message |-> "Parse error on line 1: got EOF"]
      [] queryString = "DELETE WHERE{" ->
            [ok |-> FALSE, type |-> "", op |-> "",
             message |-> "Parse error on line 1: got EOF"]

(***************************************************************************)
(* SPARQLValidator                                                         *)
(***************************************************************************)
DANGEROUS_KEYWORDS ==
    <<"DELETE", "INSERT", "DROP", "CREATE", "CLEAR", "LOAD">>

\* The keywords of DANGEROUS_KEYWORDS, by index, that text contains.
KeywordHits(cs) ==
    {i \in 1..Len(DANGEROUS_KEYWORDS) : includes(cs, Chars(DANGEROUS_KEYWORDS[i]))}

\* validate reporting every failure with the one reason.
validateOneReason(queryString) ==
    LET parsed == parse(queryString)
        upperQuery == toUpperCase(Chars(queryString))
        hits == KeywordHits(upperQuery)
    IN  IF ~parsed.ok \/ hits # {}
        THEN [valid |-> FALSE, error |-> <<"Invalid SPARQL query">>]
        ELSE [valid |-> TRUE, error |-> <<>>]

\* validate without the toUpperCase of step 2.
validateCaseSensitive(queryString) ==
    LET parsed == parse(queryString)
        hits == KeywordHits(Chars(queryString))
        first == CHOOSE i \in hits : \A j \in hits : i <= j
    IN  IF ~parsed.ok
        THEN [valid |-> FALSE,
              error |-> <<"SPARQL syntax error: ", parsed.message>>]
        ELSE IF hits # {}
        THEN [valid |-> FALSE,
              error |-> <<"Dangerous SPARQL keyword detected: ",
                          DANGEROUS_KEYWORDS[first],
                          ". Only read-only queries are allowed.">>]
        ELSE [valid |-> TRUE, error |-> <<>>]

validate(queryString) ==
    LET parsed == parse(queryString)
        upperQuery == toUpperCase(Chars(queryString))
        hits == KeywordHits(upperQuery)
        first == CHOOSE i \in hits : \A j \in hits : i <= j
    IN  IF ~parsed.ok
        THEN [valid |-> FALSE,
              error |-> <<"SPARQL syntax error: ", parsed.message>>]
        ELSE IF hits # {}
        THEN [valid |-> FALSE,
              error |-> <<"Dangerous SPARQL keyword detected: ",
                          DANGEROUS_KEYWORDS[first],
                          ". Only read-only queries are allowed.">>]
        ELSE [valid |-> TRUE, error |-> <<>>]

(***************************************************************************)
(* The tools.  DeclaredTools are the names of getFunctionDeclarations;     *)
(* the model may also answer with a name that is none of them.             *)
(***************************************************************************)
DeclaredTools ==
    {"query_wikidata", "get_wikipedia_summary", "geocode_location", "get_weather"}

\* The function calls a model response may carry: [name, args].
FunctionCalls ==
    {[name |-> "query_wikidata", args |-> q] : q \in SparqlQueries}
    \cup {[name |-> "get_wikipedia_summary", args |-> "Einstein"],
          [name |-> "geocode_location", args |-> "Rome"],
          [name |-> "get_weather", args |-> "41.9,12.5"],
          [name |-> "search_web", args |-> "Tokyo"]}

\* What the upstream service of an agent does with one HTTP request: it
\* answers with data, answers with a status the agent treats as failure, or
\* the transport fails.
UpstreamOutcomes ==
    {"ok", "fail"}

\* An agent call ends by returning a text or by throwing an error with a
\* message: [ok, text].
Returned(text) ==
    [ok |-> TRUE, text |-> text]

Thrown(message) ==
    [ok |-> FALSE, text |-> message]

\* validate on every query string of the model, evaluated once.
Verdicts ==
    [q \in SparqlQueries |-> validate(q)]

\* execute going to the endpoint without the validation.
WikidataAgent_noValidation(sparqlQuery) ==
    Returned(<<>>)

\* WikidataAgent.execute before its HTTP request: the validation.
WikidataAgent_validation(sparqlQuery) ==
    LET validation == Verdicts[sparqlQuery]
    IN  IF ~validation.valid
        THEN Thrown(<<"SPARQL validation failed: ">> \o validation.error)
        ELSE Returned(<<>>)

\* WikidataAgent.execute after its HTTP request, and formatResults.
WikidataAgent_execute(sparqlQuery, upstream) ==
    IF upstream = "ok"
    THEN Returned(<<"Found ", "1", " result(s):", "1. ", "s: ", "wd:Q1490">>)
    ELSE Thrown(<<"Wikidata query failed: ", "timeout of 10000ms exceeded">>)

\* WikipediaAgent.execute and formatSummary.
WikipediaAgent_execute(term, upstream) ==
    IF upstream = "ok"
    THEN Returned(<<"**", term, "**", "extract">>)
    ELSE Thrown(<<"Wikipedia request failed: ", "timeout of 8000ms exceeded">>)

\* NominatimAgent.geocode and formatResults.
NominatimAgent_geocode(query, upstream) ==
    IF upstream = "ok"
    THEN Returned(<<"Location: ", query, "Coordinates: lat: ", "41.9", ", lon: ", "12.5">>)
    ELSE Thrown(<<"Nominatim API error: ", "Service Unavailable">>)

\* OpenMeteoAgent.getWeather and formatWeather.
OpenMeteoAgent_getWeather(coordinates, upstream) ==
    IF upstream = "ok"
    THEN Returned(<<"Location: ", coordinates, "Current temperature: ", "21">>)
    ELSE Thrown(<<"Open-Meteo API error: ", "Service Unavailable">>)

\* The switch of executeQuery whose default case returns an empty result.
DispatchNowUnknownIgnored(call) ==
    IF call.name \notin DeclaredTools
    THEN Thrown(<<>>)
    ELSE IF call.name = "query_wikidata"
    THEN WikidataAgent_validation(call.args)
    ELSE Returned(<<>>)

\* The switch of executeQuery, for a call that does not wait for an
\* upstream service: the default case throws, and so does query_wikidata
\* when the validation fails.  Returned(<<>>) says the call goes upstream.
DispatchNow(call) ==
    IF call.name \notin DeclaredTools
    THEN Thrown(<<"Unknown function: ", call.name>>)
    ELSE IF call.name = "query_wikidata"
    THEN WikidataAgent_validation(call.args)
    ELSE Returned(<<>>)

\* The switch of executeQuery for a call whose upstream service answered.
DispatchDone(call, upstream) ==
    CASE call.name = "query_wikidata" -> WikidataAgent_execute(call.args, upstream)
      [] call.name = "get_wikipedia_summary" -> WikipediaAgent_execute(call.args, upstream)
      [] call.name = "geocode_location" -> NominatimAgent_geocode(call.args, upstream)
      [] call.name = "get_weather" -> OpenMeteoAgent_getWeather(call.args, upstream)

\* The element of functionResponses one call's callback returns: the try
\* block's return for a returned text, the catch block's for a thrown error.
FunctionResponse(call, outcome) ==
    [name |-> call.name,
     kind |-> IF outcome.ok THEN "result" ELSE "error",
     value |-> outcome.text]

\* A slot of Promise.all whose callback has not returned yet.
Pending ==
    [name |-> "", kind |-> "pending", value |-> <<>>]

\* The values collected in the order in which the promises settle: the
\* value goes to the first slot still pending.
CollectInCompletionOrder(slots, i, value) ==
    LET pending == {k \in 1..Len(slots) : slots[k] = Pending}
        k == CHOOSE m \in pending : \A n \in pending : m <= n
    IN  [slots EXCEPT ![k] = value]

\* Promise.all: the value of the i-th promise goes to the i-th slot.
Collect(slots, i, value) ==
    [slots EXCEPT ![i] = value]

(***************************************************************************)
(* ReflexiveMode                                                           *)
(***************************************************************************)
\* String.prototype.toLowerCase on a sequence of characters.
toLowerCase(cs) ==
    [i \in 1..Len(cs) |->
        IF \E k \in 1..Len(UpperCase) : UpperCase[k] = cs[i]
        THEN LowerCase[CHOOSE k \in 1..Len(UpperCase) : UpperCase[k] = cs[i]]
        ELSE cs[i]]

\* String.prototype.trim: the white space at both ends removed.
trim(cs) ==
    LET inked == {i \in 1..Len(cs) : cs[i] # " "}
        lo == CHOOSE i \in inked : \A j \in inked : i <= j
        hi == CHOOSE i \in inked : \A j \in inked : j <= i
    IN  IF inked = {} THEN <<>> ELSE SubSeq(cs, lo, hi)

\* String.prototype.startsWith.
startsWith(cs, ks) ==
    Len(ks) <= Len(cs) /\ \A j \in 1..Len(ks) : cs[j] = ks[j]

\* ks occurs in cs at offset i (the character after position i starts it).
OccursAt(cs, i, ks) ==
    i + Len(ks) <= Len(cs) /\ \A j \in 1..Len(ks) : cs[i + j] = ks[j]

\* The meta-question patterns of isReflexiveQuery.  Each is a sequence of
\* alternations joined by \s+ : <<{"how"}, {"do", "does"}, ...>> stands for
\* /how\s+(do|does)\s+.../ ; spiega(mi)? and cos['e] are written out.
metaPatterns ==
    << <<{"come"}, {"funzion"}>>,
       <<{"how"}, {"do", "does"}, {"you", "this", "it"}, {"work"}>>,
       <<{"what"}, {"is", "are"}, {"you", "this", "wikidai"}>>,
       <<{"che"}, {"cos'", "cosè"}, {"wikidai", "questo"}>>,
       <<{"spiega", "spiegami"}, {"come", "cosa"}>>,
       <<{"explain"}, {"how", "what"}>>,
       <<{"cosa"}, {"fai"}>>,
       <<{"what"}, {"do", "can"}, {"you"}, {"do"}>>,
       <<{"quali"}, {"agenti", "fonti"}>>,
       <<{"what"}, {"agents", "sources"}>> >>

\* RegExp.prototype.test for one pattern: its k-th alternation matches at
\* offset i and the rest follows after one or more white spaces.
RECURSIVE MatchFrom(_, _, _, _)
MatchFrom(cs, i, pattern, k) ==
    \E w \in pattern[k] :
        /\ OccursAt(cs, i, Chars(w))
        /\ \/ k = Len(pattern)
           \/ \E n \in 1..Len(cs) :
                /\ i + Len(Chars(w)) + n <= Len(cs)
                /\ \A j \in 1..n : cs[i + Len(Chars(w)) + j] = " "
                /\ MatchFrom(cs, i + Len(Chars(w)) + n, pattern, k + 1)

test(pattern, cs) ==
    \E i \in 0..Len(cs) : MatchFrom(cs, i, pattern, 1)

isReflexiveQuery(query) ==
    LET normalized == trim(toLowerCase(Chars(query)))
        commands == {"/help", "/how", "/stats", "/clear", "/new", "/explain"}
    IN  \/ \E cmd \in commands : startsWith(normalized, Chars(cmd))
        \/ \E p \in 1..Len(metaPatterns) : test(metaPatterns[p], normalized)

\* handleReflexive taking '/new' for '/clear'.
handleReflexive_newClears(query) ==
    LET normalized == trim(toLowerCase(Chars(query)))
    IN  IF startsWith(normalized, Chars("/help")) \/ startsWith(normalized, Chars("/how"))
        THEN [isReflexive |-> TRUE, command |-> "help", answer |-> "helpText"]
        ELSE IF startsWith(normalized, Chars("/stats"))
        THEN [isReflexive |-> TRUE, command |-> "stats", answer |-> "statsText"]
        ELSE IF startsWith(normalized, Chars("/clear")) \/ startsWith(normalized, Chars("/new"))
        THEN [isReflexive |-> TRUE, command |-> "clear", answer |-> "clearText"]
        ELSE IF isReflexiveQuery(query)
        THEN [isReflexive |-> TRUE, command |-> "", answer |-> "shortExplanation"]
        ELSE [isReflexive |-> FALSE, command |-> "", answer |-> ""]

\* handleReflexive: [isReflexive, command, answer]; command "" when absent.
handleReflexive(query) ==
    LET normalized == trim(toLowerCase(Chars(query)))
    IN  IF startsWith(normalized, Chars("/help")) \/ startsWith(normalized, Chars("/how"))
        THEN [isReflexive |-> TRUE, command |-> "help", answer |-> "helpText"]
        ELSE IF startsWith(normalized, Chars("/stats"))
        THEN [isReflexive |-> TRUE, command |-> "stats", answer |-> "statsText"]
        ELSE IF startsWith(normalized, Chars("/clear"))
        THEN [isReflexive |-> TRUE, command |-> "clear", answer |-> "clearText"]
        ELSE IF startsWith(normalized, Chars("/new"))
        THEN [isReflexive |-> TRUE, command |-> "new", answer |-> "newText"]
        ELSE IF isReflexiveQuery(query)
        THEN [isReflexive |-> TRUE, command |-> "", answer |-> "shortExplanation"]
        ELSE [isReflexive |-> FALSE, command |-> "", answer |-> ""]

\* The texts of the user.
UserQueries ==
    {"Population of Tokyo?", "/clear", "What are you?"}

\* The commands, a meta-question and a question.
ReflexiveQueries ==
    {"/help", "/how", "/stats", "/clear", "/new", " /New chat", "/explain",
     "What are you?", "Population of Tokyo?"}

\* handleReflexive on every text of the model, evaluated once.
ReflexiveChecks ==
    [q \in UserQueries \cup ReflexiveQueries \cup {""} |-> handleReflexive(q)]

(***************************************************************************)
(* ConversationManager.  The Map is the sequence of its values in          *)
(* insertion order.                                                        *)
(***************************************************************************)
\* The identifiers generateId returns, in the order it returns them: one
\* more than the store keeps.
ConversationIds ==
    1..(maxConversations + 1)

\* An absent conversation identifier: undefined.
NoId ==
    0

has(convs, id) ==
    \E i \in 1..Len(convs) : convs[i].id = id

IndexOf(convs, id) ==
    CHOOSE i \in 1..Len(convs) : convs[i].id = id

getConversation(convs, id) ==
    convs[IndexOf(convs, id)]

\* Map.prototype.delete.
delete(convs, id) ==
    LET keep == {i \in 1..Len(convs) : convs[i].id # id}
        F[n \in 0..Len(convs)] ==
            IF n = 0 THEN <<>>
            ELSE IF n \in keep THEN Append(F[n - 1], convs[n]) ELSE F[n - 1]
    IN  F[Len(convs)]

\* The position of convs[i] in listConversations: Array.prototype.sort is
\* stable, so conversations with equal updatedAt keep the insertion order.
Rank(convs, i) ==
    Cardinality({j \in 1..Len(convs) :
        \/ convs[j].updatedAt > convs[i].updatedAt
        \/ convs[j].updatedAt = convs[i].updatedAt /\ j < i})

\* A listing that leaves the values in the order of the Map.
listConversations_insertionOrder(convs) ==
    convs

listConversations(convs) ==
    [n \in 1..Len(convs) |-> convs[CHOOSE i \in 1..Len(convs) : Rank(convs, i) = n - 1]]

\* A cleanup that keeps the conversations created last.
cleanupOldConversations_createdLast(convs) ==
    SubSeq(convs, Len(convs) - maxConversations + 1, Len(convs))

cleanupOldConversations(convs) ==
    LET sorted == listConversations(convs)
        toDelete == {sorted[n].id : n \in (maxConversations + 1)..Len(sorted)}
        F[n \in 0..Len(convs)] ==
            IF n = 0 THEN <<>>
            ELSE IF convs[n].id \in toDelete THEN F[n - 1] ELSE Append(F[n - 1], convs[n])
    IN  F[Len(convs)]

\* The decimal digits of a small number, for `Conversation ${size + 1}`.
Digit(n) ==
    <<"0", "1", "2", "3", "4", "5", "6", "7", "8", "9">>[n + 1]

\* Map.prototype.set: an existing key keeps its place.
set(convs, id, conversation) ==
    IF has(convs, id)
    THEN [convs EXCEPT ![IndexOf(convs, id)] = conversation]
    ELSE Append(convs, conversation)

\* createConversation without its cleanup.
createConversation_noCleanup(convs, id, title, t) ==
    Append(convs,
           [id |-> id,
            title |-> IF title # "" THEN Chars(title)
                      ELSE Chars("Conversation ") \o <<Digit(Len(convs) + 1)>>,
            messages |-> <<>>,
            createdAt |-> t,
            updatedAt |-> t,
            metadata |-> [totalQueries |-> 0, totalLatencyMs |-> 0, agentsUsed |-> {}]])

\* createConversation(title) at time t, generateId having returned id; the
\* title "" stands for no title.
createConversation(convs, id, title, t) ==
    LET conversation ==
            [id |-> id,
             title |-> IF title # "" THEN Chars(title)
                       ELSE Chars("Conversation ") \o <<Digit(Len(convs) + 1)>>,
             messages |-> <<>>,
             createdAt |-> t,
             updatedAt |-> t,
             metadata |-> [totalQueries |-> 0, totalLatencyMs |-> 0, agentsUsed |-> {}]]
        stored == set(convs, id, conversation)
    IN  IF Len(stored) > maxConversations
        THEN cleanupOldConversations(stored)
        ELSE stored

\* What createConversation writes to console.log: the line of
\* cleanupOldConversations when it deleted something, then its own.
createConversation_log(convs, id, title, t) ==
    LET conversation ==
            [id |-> id,
             title |-> IF title # "" THEN Chars(title)
                       ELSE Chars("Conversation ") \o <<Digit(Len(convs) + 1)>>,
             messages |-> <<>>,
             createdAt |-> t,
             updatedAt |-> t,
             metadata |-> [totalQueries |-> 0, totalLatencyMs |-> 0, agentsUsed |-> {}]]
        stored == set(convs, id, conversation)
        toDelete == Len(stored) - Len(createConversation(convs, id, title, t))
    IN  (IF toDelete > 0
         THEN << <<"Cleaned up ", Digit(toDelete), " old conversations">> >>
         ELSE << >>)
        \o << <<"Created conversation: ", Digit(id), " - ">> \o conversation.title >>

\* What deleteConversation writes to console.log when it deleted; old is
\* what the console held.
deleteConversation_log(convs, id, old) ==
    IF has(convs, id)
    THEN << <<"Deleted conversation: ", Digit(id)>> >>
    ELSE old

generateTitle(firstMessage) ==
    LET maxLength == 50
        cs == Chars(firstMessage)
    IN  IF Len(cs) <= maxLength
        THEN cs
        ELSE SubSeq(cs, 1, maxLength - 3) \o <<".", ".", ".">>

\* A QueryResponse; NoQueryResponse is the absent queryResponse of a user
\* message.
NoQueryResponse ==
    [query |-> "", thoughts |-> <<>>, agentCalls |-> <<>>, answer |-> "", latencyMs |-> 0]

\* addUserMessage deriving the title from every user message.
addUserMessage_retitles(convs, conversationId, content, t) ==
    LET conversation == getConversation(convs, conversationId)
        message == [role |-> "user", content |-> content, timestamp |-> t,
                    queryResponse |-> NoQueryResponse]
    IN  [convs EXCEPT ![IndexOf(convs, conversationId)] =
            [conversation EXCEPT
                !.messages = Append(@, message),
                !.updatedAt = t,
                !.title = generateTitle(content)]]

\* addUserMessage on a conversation the Map holds.
addUserMessage(convs, conversationId, content, t) ==
    LET conversation == getConversation(convs, conversationId)
        message == [role |-> "user", content |-> content, timestamp |-> t,
                    queryResponse |-> NoQueryResponse]
        messages == Append(conversation.messages, message)
        users == {i \in 1..Len(messages) : messages[i].role = "user"}
    IN  [convs EXCEPT ![IndexOf(convs, conversationId)] =
            [conversation EXCEPT
                !.messages = messages,
                !.updatedAt = t,
                !.title = IF Cardinality(users) = 1 THEN generateTitle(content) ELSE @]]

\* addAssistantMessage that leaves totalQueries as it was.
addAssistantMessage_noCount(convs, conversationId, content, queryResponse, t) ==
    LET conversation == getConversation(convs, conversationId)
        message == [role |-> "assistant", content |-> content, timestamp |-> t,
                    queryResponse |-> queryResponse]
    IN  [convs EXCEPT ![IndexOf(convs, conversationId)] =
            [conversation EXCEPT
                !.messages = Append(@, message),
                !.updatedAt = t,
                !.metadata = [totalQueries |-> @.totalQueries,
                              totalLatencyMs |-> @.totalLatencyMs + queryResponse.latencyMs,
                              agentsUsed |-> @.agentsUsed \cup
                                  {queryResponse.agentCalls[i].agent :
                                      i \in 1..Len(queryResponse.agentCalls)}]]]

\* addAssistantMessage recording the latency of the last turn only.
addAssistantMessage_lastLatency(convs, conversationId, content, queryResponse, t) ==
    LET conversation == getConversation(convs, conversationId)
        message == [role |-> "assistant", content |-> content, timestamp |-> t,
                    queryResponse |-> queryResponse]
    IN  [convs EXCEPT ![IndexOf(convs, conversationId)] =
            [conversation EXCEPT
                !.messages = Append(@, message),
                !.updatedAt = t,
                !.metadata = [totalQueries |-> @.totalQueries + 1,
                              totalLatencyMs |-> queryResponse.latencyMs,
                              agentsUsed |-> @.agentsUsed \cup
                                  {queryResponse.agentCalls[i].agent :
                                      i \in 1..Len(queryResponse.agentCalls)}]]]

\* addAssistantMessage on a conversation the Map holds.
addAssistantMessage(convs, conversationId, content, queryResponse, t) ==
    LET conversation == getConversation(convs, conversationId)
        message == [role |-> "assistant", content |-> content, timestamp |-> t,
                    queryResponse |-> queryResponse]
    IN  [convs EXCEPT ![IndexOf(convs, conversationId)] =
            [conversation EXCEPT
                !.messages = Append(@, message),
                !.updatedAt = t,
                !.metadata = [totalQueries |-> @.totalQueries + 1,
                              totalLatencyMs |-> @.totalLatencyMs + queryResponse.latencyMs,
                              agentsUsed |-> @.agentsUsed \cup
                                  {queryResponse.agentCalls[i].agent :
                                      i \in 1..Len(queryResponse.agentCalls)}]]]

\* Map.prototype.clear.
clearAll(convs) ==
    <<>>

\* What clearAll writes to console.log.
clearAll_log(convs) ==
    << <<"Cleared ", Digit(Len(convs)), " conversations">> >>

\* Math.round of the quotient of two naturals, the second positive: halves
\* round up.
round(totalLatencyMs, totalQueries) ==
    (2 * totalLatencyMs + totalQueries) \div (2 * totalQueries)

\* getStats on a conversation the Map holds (it returns null otherwise).
getStats(convs, conversationId) ==
    LET conversation == getConversation(convs, conversationId)
    IN  [messageCount |-> Len(conversation.messages),
         avgLatency |-> IF conversation.metadata.totalQueries > 0
                        THEN round(conversation.metadata.totalLatencyMs,
                                   conversation.metadata.totalQueries)
                        ELSE 0,
         agentsUsed |-> conversation.metadata.agentsUsed]

\* getGeminiHistory that passes the roles on as they are.
getGeminiHistory_rolesKept(convs, conversationId) ==
    IF ~has(convs, conversationId)
    THEN <<>>
    ELSE LET messages == getConversation(convs, conversationId).messages
         IN  [i \in 1..Len(messages) |->
                [role |-> messages[i].role, text |-> messages[i].content]]

getGeminiHistory(convs, conversationId) ==
    IF ~has(convs, conversationId)
    THEN <<>>
    ELSE LET messages == getConversation(convs, conversationId).messages
         IN  [i \in 1..Len(messages) |->
                [role |-> IF messages[i].role = "user" THEN "user" ELSE "model",
                 text |-> messages[i].content]]

vars ==
    <<now, nextId, conversations, maxConversations, log, reply, handler, run>>

\* The requests POST /api/query serves at the same time.
Requests ==
    {"r1", "r2"}

\* One request at a time.
OneRequest ==
    {"r1"}

\* The turn limit of the loop of executeQuery: `if (turn > 10)`.
MAX_TURNS ==
    10

\* The texts the model answers with.
Texts ==
    {"Tokyo has about 14 million people.", "Rome."}

ThoughtTexts ==
    {"I should ask Wikidata"}

\* A response body: res.json(...).  success is "absent" when the body has no
\* success field; error is <<>> and hasData FALSE when it has none.
Body(success, reflexive, command, error, hasData, data) ==
    [success |-> success, reflexive |-> reflexive, command |-> command,
     error |-> error, hasData |-> hasData, data |-> data]

NoBody ==
    Body("absent", "absent", "", <<>>, FALSE, NoQueryResponse)

IdleHandler ==
    [pc |-> "idle", query |-> "", conversationId |-> NoId, conversation |-> NoId,
     status |-> 0, body |-> NoBody]

\* No response of the chat session yet.
NoResponse ==
    [thoughts |-> <<>>, functionCalls |-> <<>>, text |-> "none"]

\* response is the last response of the chat session; sent is the argument
\* of the last chat.sendMessage: the user's text, or
\* the functionResponses of a turn.
IdleRun ==
    [pc |-> "idle", userQuery |-> "", history |-> <<>>, startTime |-> 0,
     turn |-> 0, chatCalls |-> 0, response |-> NoResponse,
     sent |-> [kind |-> "none", text |-> "", parts |-> <<>>],
     functionCalls |-> <<>>, functionResponses |-> <<>>, settled |-> <<>>,
     thoughts |-> <<>>, agentCalls |-> <<>>, invoked |-> 0,
     endpointQueries |-> {}, returned |-> NoQueryResponse, error |-> <<>>]

\* No average of a conversation: what getStats gives when it returns null.
NoStats ==
    [messageCount |-> 0, avgLatency |-> 0, agentsUsed |-> {}]

\* The response of a conversation endpoint: the route that answered, the
\* status, the body, the identifier the request or the response names, and
\* the data of GET /api/conversations and of GET /api/conversations/:id/stats.
Reply(route, status, body, id, list, stats) ==
    [route |-> route, status |-> status, body |-> body, id |-> id,
     list |-> list, stats |-> stats]

NoReply ==
    Reply("", 0, NoBody, NoId, <<>>, NoStats)

Init ==
    /\ now = 0
    /\ nextId = 1
    /\ conversations = <<>>
    /\ maxConversations = DefaultMaxConversations
    /\ log = <<>>
    /\ reply = NoReply
    /\ handler = [r \in Requests |-> IdleHandler]
    /\ run = [r \in Requests |-> IdleRun]

\* The values a reading of the clock may give.
Times ==
    {now} \cup (IF now < MaxTime THEN {now + 1} ELSE {})

(***************************************************************************)
(* POST /api/query after `await orchestrator.executeQuery` : the rest of   *)
(* the try block when it returned, the catch block when it threw.          *)
(***************************************************************************)
\* executeQuery returned result at time t.
AfterExecuteQuery(r, result, t) ==
    LET h == handler[r]
    IN  IF h.conversation # NoId /\ ~has(conversations, h.conversation)
        THEN \* addAssistantMessage throws; the catch block answers
             /\ conversations' = conversations
             /\ handler' = [handler EXCEPT ![r] = [h EXCEPT
                    !.pc = "responded", !.status = 500,
                    !.body = Body("false", "absent", "",
                                  <<"Conversation ", Digit(h.conversation), " not found">>,
                                  FALSE, NoQueryResponse)]]
        ELSE /\ conversations' =
                    IF h.conversation # NoId
                    THEN addAssistantMessage(conversations, h.conversation,
                                             result.answer, result, t)
                    ELSE conversations
             /\ handler' = [handler EXCEPT ![r] = [h EXCEPT
                    !.pc = "responded", !.status = 200,
                    !.body = Body("true", "false", "", <<>>, TRUE, result)]]

\* A catch block that answers as if the query had succeeded.
CatchAnswersSuccess(r, message) ==
    /\ conversations' = conversations
    /\ handler' = [handler EXCEPT ![r] = [@ EXCEPT
            !.pc = "responded", !.status = 200,
            !.body = Body("true", "false", "", <<>>, TRUE, NoQueryResponse)]]

\* executeQuery threw an error with this message.
CatchExecuteQuery(r, message) ==
    /\ conversations' = conversations
    /\ handler' = [handler EXCEPT ![r] = [@ EXCEPT
            !.pc = "responded", !.status = 500,
            !.body = Body("false", "absent", "", message, FALSE, NoQueryResponse)]]

(***************************************************************************)
(* POST /api/query up to its first await: the body check, the reflexive    *)
(* branch, the conversation lookup, the history, addUserMessage, and       *)
(* executeQuery up to `await chat.sendMessage(userQuery)`.                 *)
(***************************************************************************)
PostQueryHandler(r, queryType, query, conversationId) ==
    /\ handler[r].pc \in {"idle", "responded"}
    /\ \E t \in Times :
        LET reflexiveCheck == ReflexiveChecks[query]
            h == [IdleHandler EXCEPT !.query = query, !.conversationId = conversationId]
        IN  /\ now' = t
            /\ UNCHANGED <<nextId, reply, maxConversations>>
            /\ log' = IF /\ queryType = "string" /\ query # ""
                          /\ reflexiveCheck.isReflexive
                          /\ reflexiveCheck.command = "clear" /\ conversationId # NoId
                       THEN deleteConversation_log(conversations, conversationId, log)
                       ELSE log
            /\ IF queryType # "string" \/ query = ""
               THEN /\ handler' = [handler EXCEPT ![r] = [h EXCEPT
                            !.pc = "responded", !.status = 400,
                            !.body = Body("absent", "absent", "",
                                          <<"Query string required">>, FALSE,
                                          NoQueryResponse)]]
                    /\ run' = [run EXCEPT ![r] = IdleRun]
                    /\ UNCHANGED conversations
               ELSE IF reflexiveCheck.isReflexive
               THEN /\ conversations' =
                            IF reflexiveCheck.command = "clear" /\ conversationId # NoId
                            THEN delete(conversations, conversationId)
                            ELSE conversations
                    /\ handler' = [handler EXCEPT ![r] = [h EXCEPT
                            !.pc = "responded", !.status = 200,
                            !.body = Body("true", "true", reflexiveCheck.command, <<>>, TRUE,
                                          [query |-> query, thoughts |-> <<>>,
                                           agentCalls |-> <<>>,
                                           answer |-> reflexiveCheck.answer,
                                           latencyMs |-> 0])]]
                    /\ run' = [run EXCEPT ![r] = IdleRun]
               ELSE IF conversationId # NoId /\ ~has(conversations, conversationId)
               THEN /\ handler' = [handler EXCEPT ![r] = [h EXCEPT
                            !.pc = "responded", !.status = 404,
                            !.body = Body("absent", "absent", "",
                                          <<"Conversation ", Digit(conversationId),
                                            " not found">>, FALSE, NoQueryResponse)]]
                    /\ run' = [run EXCEPT ![r] = IdleRun]
                    /\ UNCHANGED conversations
               ELSE /\ conversations' =
                            IF conversationId # NoId
                            THEN addUserMessage(conversations, conversationId, query, t)
                            ELSE conversations
                    /\ handler' = [handler EXCEPT ![r] = [h EXCEPT
                            !.pc = "awaiting", !.conversation = conversationId]]
                    /\ run' = [run EXCEPT ![r] = [IdleRun EXCEPT
                            !.pc = "chat",
                            !.userQuery = query,
                            !.history = getGeminiHistory(conversations, conversationId),
                            !.startTime = t,
                            !.chatCalls = 1,
                            !.sent = [kind |-> "text", text |-> query, parts |-> <<>>]]]

\* The conversation a request names, if stored, has fewer than n messages.
MessagesBelow(conversationId, n) ==
    conversationId # NoId /\ has(conversations, conversationId)
        => Len(getConversation(conversations, conversationId).messages) < n

\* POST /api/query on a conversation of fewer than MaxMessages messages.
PostQuery(r, queryType, query, conversationId) ==
    /\ MessagesBelow(conversationId, MaxMessages)
    /\ PostQueryHandler(r, queryType, query, conversationId)

(***************************************************************************)
(* executeQuery                                                            *)
(***************************************************************************)
\* The responses the chat session may give to the pending sendMessage of
\* run r: [thoughts, functionCalls, text].
CountDeclared(calls) ==
    Cardinality({i \in 1..Len(calls) : calls[i].name \in DeclaredTools})

\* `turn` when the loop body is entered for this response: 1 after the
\* first sendMessage, and turn++ after every later one.
NextTurn(r) ==
    IF run[r].turn = 0 THEN 1 ELSE run[r].turn + 1

\* Declared tools are requested in the first MaxToolTurns turns only, at
\* most MaxInvocations times in all; a name that is no declared tool may
\* be requested in any turn.
Batches(r) ==
    {calls \in UNION {[1..n -> FunctionCalls] : n \in 1..MaxBatch} :
        \/ CountDeclared(calls) = 0
        \/ /\ NextTurn(r) <= MaxToolTurns
           /\ run[r].invoked + CountDeclared(calls) <= MaxInvocations}

ThoughtParts(r) ==
    {<<>>} \cup (IF Len(run[r].thoughts) < MaxThoughts
                 THEN {<<th>> : th \in ThoughtTexts}
                 ELSE {})

ModelResponses(r) ==
    {[thoughts |-> th, functionCalls |-> <<>>, text |-> x] :
        th \in ThoughtParts(r), x \in Texts}
    \cup {[thoughts |-> th, functionCalls |-> calls, text |-> ""] :
        th \in ThoughtParts(r), calls \in Batches(r)}

\* A QueryResponse that loses the answer.
QueryResponseNoAnswer(r, thoughts, answer, t) ==
    [query |-> run[r].userQuery,
     thoughts |-> thoughts,
     agentCalls |-> run[r].agentCalls,
     answer |-> "",
     latencyMs |-> t - run[r].startTime]

\* The QueryResponse executeQuery returns at time t.
QueryResponse(r, thoughts, answer, t) ==
    [query |-> run[r].userQuery,
     thoughts |-> thoughts,
     agentCalls |-> run[r].agentCalls,
     answer |-> answer,
     latencyMs |-> t - run[r].startTime]

\* `if (turn > 10) break` after a sendMessage of function responses.
TurnsExhausted(r) ==
    run[r].turn # 0 /\ NextTurn(r) > MAX_TURNS

\* A pending chat.sendMessage resolves with response resp.  The loop runs on
\* to its next await: it breaks on the turn limit, returns the final
\* answer, or starts every function call of the response; a call that ends
\* without waiting for an upstream service has its functionResponse at once.
ChatResponse(r, resp) ==
    /\ run[r].pc = "chat"
    /\ UNCHANGED <<nextId, reply, maxConversations, log>>
    /\ \E t \in Times :
        /\ now' = t
        /\ IF TurnsExhausted(r)
           THEN LET result == QueryResponse(r, run[r].thoughts,
                                            "Query processing incomplete", t)
                IN  /\ run' = [run EXCEPT ![r] = [@ EXCEPT
                            !.pc = "returned", !.turn = NextTurn(r),
                            !.response = resp, !.returned = result]]
                    /\ AfterExecuteQuery(r, result, t)
           ELSE LET thoughts == run[r].thoughts \o
                        [i \in 1..Len(resp.thoughts) |->
                            IF resp.thoughts[i] = "" THEN "Thinking..." ELSE resp.thoughts[i]]
                    functionCalls == resp.functionCalls
                IN  IF Len(functionCalls) = 0
                    THEN LET result == QueryResponse(r, thoughts, resp.text, t)
                         IN  /\ run' = [run EXCEPT ![r] = [@ EXCEPT
                                    !.pc = "returned", !.turn = NextTurn(r),
                                    !.response = resp,
                                    !.thoughts = thoughts, !.returned = result]]
                             /\ AfterExecuteQuery(r, result, t)
                    ELSE /\ run' = [run EXCEPT ![r] = [@ EXCEPT
                                !.pc = "tools", !.turn = NextTurn(r),
                                !.response = resp,
                                !.thoughts = thoughts,
                                !.functionCalls = functionCalls,
                                !.invoked = @ + CountDeclared(functionCalls),
                                !.functionResponses =
                                    [i \in 1..Len(functionCalls) |->
                                        IF DispatchNow(functionCalls[i]).ok
                                        THEN Pending
                                        ELSE FunctionResponse(functionCalls[i],
                                                 DispatchNow(functionCalls[i]))],
                                !.settled =
                                    [i \in 1..Len(functionCalls) |->
                                        IF DispatchNow(functionCalls[i]).ok
                                        THEN Pending
                                        ELSE DispatchNow(functionCalls[i])],
                                !.endpointQueries = @ \cup
                                    {functionCalls[i].args : i \in
                                        {j \in 1..Len(functionCalls) :
                                            /\ functionCalls[j].name = "query_wikidata"
                                            /\ DispatchNow(functionCalls[j]).ok}}]]
                         /\ UNCHANGED <<conversations, handler>>

\* The message of the error a failed chat.sendMessage rejects with.
ChatError ==
    <<"[GoogleGenerativeAI Error]: fetch failed">>

\* A pending chat.sendMessage rejects: executeQuery throws.
ChatFailure(r) ==
    /\ run[r].pc = "chat"
    /\ UNCHANGED <<nextId, reply, maxConversations, log>>
    /\ \E t \in Times : now' = t
    /\ LET message == ChatError
       IN  /\ run' = [run EXCEPT ![r] = [@ EXCEPT !.pc = "thrown", !.error = message]]
           /\ CatchExecuteQuery(r, message)

\* The callback without its try/catch: an agent's error rejects Promise.all
\* and executeQuery throws it.
AgentReturnUncaught(r, i, upstream) ==
    /\ run[r].pc = "tools"
    /\ i \in 1..Len(run[r].functionCalls)
    /\ run[r].settled[i] = Pending
    /\ UNCHANGED <<nextId, reply, maxConversations, log>>
    /\ \E t \in Times : now' = t
    /\ LET call == run[r].functionCalls[i]
           outcome == DispatchDone(call, upstream)
       IN  IF outcome.ok
           THEN /\ run' = [run EXCEPT ![r] = [@ EXCEPT
                        !.settled = [@ EXCEPT ![i] = outcome],
                        !.functionResponses = Collect(@, i, FunctionResponse(call, outcome)),
                        !.agentCalls = Append(@, [agent |-> call.name, params |-> call.args,
                                                  response |-> outcome.text])]]
                /\ UNCHANGED <<conversations, handler>>
           ELSE /\ run' = [run EXCEPT ![r] = [@ EXCEPT
                        !.pc = "thrown", !.error = outcome.text]]
                /\ CatchExecuteQuery(r, outcome.text)

\* The upstream service of the i-th function call answers: the callback
\* runs to its return, pushing to agentCalls when the agent returned.
AgentReturn(r, i, upstream) ==
    /\ run[r].pc = "tools"
    /\ i \in 1..Len(run[r].functionCalls)
    /\ run[r].settled[i] = Pending
    /\ UNCHANGED <<nextId, reply, maxConversations, log, conversations, handler>>
    /\ \E t \in Times : now' = t
    /\ LET call == run[r].functionCalls[i]
           outcome == DispatchDone(call, upstream)
       IN  run' = [run EXCEPT ![r] = [@ EXCEPT
                !.settled = [@ EXCEPT ![i] = outcome],
                !.functionResponses = Collect(@, i, FunctionResponse(call, outcome)),
                !.agentCalls =
                    IF outcome.ok
                    THEN Append(@, [agent |-> call.name, params |-> call.args,
                                    response |-> outcome.text])
                    ELSE @]]

\* A loop that sends the function responses it has, without awaiting the
\* callbacks still running.
SendFunctionResponses_early(r) ==
    /\ run[r].pc = "tools"
    /\ UNCHANGED <<nextId, reply, maxConversations, log, conversations, handler>>
    /\ \E t \in Times : now' = t
    /\ run' = [run EXCEPT ![r] = [@ EXCEPT
            !.pc = "chat",
            !.chatCalls = @ + 1,
            !.sent = [kind |-> "functionResponses", text |-> "",
                      parts |-> run[r].functionResponses]]]

\* The `timeout` option, in milliseconds, of the HTTP request of a tool's
\* agent: axios.get is given one, fetch is given none (0).
timeout(name) ==
    CASE name = "query_wikidata" -> 10000
      [] name = "get_wikipedia_summary" -> 8000
      [] OTHER -> 0

\* The upstream service of the i-th function call has not answered within
\* the timeout of the request: axios rejects with 'timeout of ...ms
\* exceeded' and the callback runs to its return.
RequestTimeout(r, i) ==
    /\ run[r].pc = "tools"
    /\ i \in 1..Len(run[r].functionCalls)
    /\ run[r].settled[i] = Pending
    /\ timeout(run[r].functionCalls[i].name) > 0
    /\ AgentReturn(r, i, "fail")

\* Promise.all resolved: `response = await chat.sendMessage(functionResponses)`.
SendFunctionResponses(r) ==
    /\ run[r].pc = "tools"
    /\ \A i \in 1..Len(run[r].settled) : run[r].settled[i] # Pending
    /\ UNCHANGED <<nextId, reply, maxConversations, log, conversations, handler>>
    /\ \E t \in Times : now' = t
    /\ run' = [run EXCEPT ![r] = [@ EXCEPT
            !.pc = "chat",
            !.chatCalls = @ + 1,
            !.sent = [kind |-> "functionResponses", text |-> "",
                      parts |-> run[r].functionResponses]]]

(***************************************************************************)
(* The conversation endpoints.                                             *)
(***************************************************************************)
\* POST /api/conversations
PostConversations(title) ==
    /\ nextId \in ConversationIds
    /\ UNCHANGED <<maxConversations, handler, run>>
    /\ \E t \in Times :
        /\ now' = t
        /\ nextId' = nextId + 1
        /\ conversations' = createConversation(conversations, nextId, title, t)
        /\ log' = createConversation_log(conversations, nextId, title, t)
        /\ reply' = Reply("POST /api/conversations", 200,
                           Body("true", "absent", "", <<>>, TRUE, NoQueryResponse),
                           nextId, <<>>, NoStats)

\* DELETE /api/conversations/:id
DeleteConversation(id) ==
    /\ UNCHANGED <<nextId, maxConversations, handler, run>>
    /\ \E t \in Times : now' = t
    /\ conversations' = delete(conversations, id)
    /\ log' = deleteConversation_log(conversations, id, log)
    /\ reply' = IF has(conversations, id)
                THEN Reply("DELETE /api/conversations/:id", 200,
                           Body("true", "absent", "", <<>>, FALSE, NoQueryResponse),
                           id, <<>>, NoStats)
                ELSE Reply("DELETE /api/conversations/:id", 404,
                           Body("false", "absent", "", <<"Conversation not found">>,
                                FALSE, NoQueryResponse),
                           id, <<>>, NoStats)

\* The entry of GET /api/conversations for a conversation.
Summary(conv) ==
    [id |-> conv.id, title |-> conv.title, messageCount |-> Len(conv.messages),
     createdAt |-> conv.createdAt, updatedAt |-> conv.updatedAt]

\* GET /api/conversations
GetConversations ==
    /\ UNCHANGED <<now, nextId, conversations, maxConversations, log, handler, run>>
    /\ LET listed == listConversations(conversations)
       IN  reply' = Reply("GET /api/conversations", 200,
                          Body("true", "absent", "", <<>>, TRUE, NoQueryResponse),
                          NoId, [n \in 1..Len(listed) |-> Summary(listed[n])], NoStats)

\* GET /api/conversations/:id
GetConversation(id) ==
    /\ UNCHANGED <<now, nextId, conversations, maxConversations, log, handler, run>>
    /\ reply' = IF has(conversations, id)
                THEN Reply("GET /api/conversations/:id", 200,
                           Body("true", "absent", "", <<>>, TRUE, NoQueryResponse),
                           id, <<>>, NoStats)
                ELSE Reply("GET /api/conversations/:id", 404,
                           Body("false", "absent", "", <<"Conversation not found">>,
                                FALSE, NoQueryResponse),
                           id, <<>>, NoStats)

\* GET /api/conversations/:id/stats
GetStats(id) ==
    /\ UNCHANGED <<now, nextId, conversations, maxConversations, log, handler, run>>
    /\ reply' = IF has(conversations, id)
                THEN Reply("GET /api/conversations/:id/stats", 200,
                           Body("true", "absent", "", <<>>, TRUE, NoQueryResponse),
                           id, <<>>, getStats(conversations, id))
                ELSE Reply("GET /api/conversations/:id/stats", 404,
                           Body("false", "absent", "", <<"Conversation not found">>,
                                FALSE, NoQueryResponse),
                           id, <<>>, NoStats)

\* GET /health: `res.json({ status: 'ok', service: 'wikidai-poc' })`.
Health ==
    /\ UNCHANGED <<now, nextId, conversations, maxConversations, log, handler, run>>
    /\ reply' = Reply("GET /health", 200,
                      Body("absent", "absent", "", <<>>, FALSE, NoQueryResponse),
                      NoId, <<>>, NoStats)

(***************************************************************************)
(* The ConversationManager called method by method.                        *)
(***************************************************************************)
\* The contents of user messages: of 50 and of 51 characters.
Contents ==
    {"Which rivers flow through both Germany and France?",
     "Which rivers flow through both Germany and Austria?"}

\* The messages the Map holds, over all its conversations.
TotalMessages(convs) ==
    LET F[n \in 0..Len(convs)] ==
            IF n = 0 THEN 0 ELSE F[n - 1] + Len(convs[n].messages)
    IN  F[Len(convs)]

\* The largest latencyMs of a query response.
MaxLatency ==
    2

\* The query responses appended to conversations: the slower ones called
\* an agent.
QueryResponses ==
    {[query |-> "Population of Tokyo?", thoughts |-> <<>>,
      agentCalls |-> IF latencyMs = 1 THEN <<>>
                     ELSE <<[agent |-> "get_wikipedia_summary", params |-> "Einstein",
                             response |-> <<"summary">>]>>,
      answer |-> "Rome.", latencyMs |-> latencyMs] :
        latencyMs \in 1..MaxLatency}

\* conversationManager.addUserMessage(conversationId, content); it throws,
\* changing nothing, when the Map does not hold the conversation.
ConversationManager_addUserMessage(conversationId, content) ==
    /\ has(conversations, conversationId)
    /\ TotalMessages(conversations) < MaxMessages
    /\ UNCHANGED <<nextId, maxConversations, log, reply, handler, run>>
    /\ \E t \in Times :
        /\ now' = t
        /\ conversations' = addUserMessage(conversations, conversationId, content, t)

\* conversationManager.addAssistantMessage(conversationId, content,
\* queryResponse) with the answer as content, as POST /api/query calls it.
ConversationManager_addAssistantMessage(conversationId, queryResponse) ==
    /\ has(conversations, conversationId)
    /\ TotalMessages(conversations) < MaxMessages
    /\ UNCHANGED <<nextId, maxConversations, log, reply, handler, run>>
    /\ \E t \in Times :
        /\ now' = t
        /\ conversations' = addAssistantMessage(conversations, conversationId,
                                                queryResponse.answer, queryResponse, t)

\* conversationManager.clearAll()
ConversationManager_clearAll ==
    /\ conversations # <<>>
    /\ UNCHANGED <<now, nextId, maxConversations, reply, handler, run>>
    /\ conversations' = clearAll(conversations)
    /\ log' = clearAll_log(conversations)

\* The request bodies of POST /api/query: <<typeof query, query>>.
QueryBodies ==
    {<<"undefined", "">>} \cup {<<"string", q>> : q \in UserQueries \cup {""}}

\* The model responses that request no declared tool and carry no thought.
PlainResponses(r) ==
    {resp \in ModelResponses(r) :
        /\ resp.thoughts = <<>>
        /\ Len(resp.functionCalls) <= 1
        /\ CountDeclared(resp.functionCalls) = 0}

Next ==
    \/ \E r \in Requests, body \in QueryBodies, conversationId \in ConversationIds \cup {NoId} :
            PostQuery(r, body[1], body[2], conversationId)
    \/ \E r \in Requests : \E resp \in ModelResponses(r) : ChatResponse(r, resp)
    \/ \E r \in Requests : ChatFailure(r)
    \/ \E r \in Requests, i \in 1..MaxBatch, upstream \in UpstreamOutcomes :
            AgentReturn(r, i, upstream)
    \/ \E r \in Requests : SendFunctionResponses(r)
    \/ \E title \in {"", "Chat"} : PostConversations(title)
    \/ \E id \in ConversationIds : DeleteConversation(id)
    \/ GetConversations
    \/ \E id \in ConversationIds : GetConversation(id)
    \/ \E id \in ConversationIds : GetStats(id)
    \/ Health

Spec ==
    Init /\ [][Next]_vars

\* The orchestrator alone: requests without a conversation, and every model
\* response.
NextOrchestrator ==
    \/ \E r \in OneRequest, body \in QueryBodies :
            PostQuery(r, body[1], body[2], NoId)
    \/ \E r \in OneRequest : \E resp \in ModelResponses(r) : ChatResponse(r, resp)
    \/ \E r \in OneRequest : ChatFailure(r)
    \/ \E r \in OneRequest, i \in 1..MaxBatch, upstream \in UpstreamOutcomes :
            AgentReturn(r, i, upstream)
    \/ \E r \in OneRequest : SendFunctionResponses(r)

SpecOrchestrator ==
    Init /\ [][NextOrchestrator]_vars

\* The server with its conversations, the model answering plainly.
NextServer ==
    \/ \E r \in OneRequest, body \in QueryBodies, conversationId \in ConversationIds \cup {NoId} :
            PostQuery(r, body[1], body[2], conversationId)
    \/ \E r \in OneRequest : \E resp \in PlainResponses(r) : ChatResponse(r, resp)
    \/ \E r \in OneRequest : ChatFailure(r)
    \/ \E r \in OneRequest : SendFunctionResponses(r)
    \/ \E title \in {"", "Chat"} : PostConversations(title)
    \/ \E id \in ConversationIds : DeleteConversation(id)

SpecServer ==
    Init /\ [][NextServer]_vars

\* The model responses that are a final answer without thoughts.
FinalResponses(r) ==
    {resp \in ModelResponses(r) : resp.thoughts = <<>> /\ resp.functionCalls = <<>>}

\* Every endpoint of the server, the model answering each query at once.
NextEndpoints ==
    \/ \E r \in OneRequest, body \in QueryBodies, conversationId \in ConversationIds \cup {NoId} :
            PostQuery(r, body[1], body[2], conversationId)
    \/ \E r \in OneRequest : \E resp \in FinalResponses(r) : ChatResponse(r, resp)
    \/ \E r \in OneRequest : ChatFailure(r)
    \/ \E title \in {"", "Chat"} : PostConversations(title)
    \/ \E id \in ConversationIds : DeleteConversation(id)
    \/ GetConversations
    \/ \E id \in ConversationIds : GetConversation(id)
    \/ \E id \in ConversationIds : GetStats(id)
    \/ Health

SpecEndpoints ==
    Init /\ [][NextEndpoints]_vars

\* A ConversationManager of its own, called method by method and through
\* the endpoints that only wrap one method.
InitStore ==
    /\ now = 0
    /\ nextId = 1
    /\ conversations = <<>>
    /\ maxConversations = StoreMaxConversations
    /\ log = <<>>
    /\ reply = NoReply
    /\ handler = [r \in Requests |-> IdleHandler]
    /\ run = [r \in Requests |-> IdleRun]

NextStore ==
    \/ \E title \in {"", "Chat"} : PostConversations(title)
    \/ \E id \in ConversationIds : DeleteConversation(id)
    \/ GetConversations
    \/ \E id \in ConversationIds, content \in Contents :
            ConversationManager_addUserMessage(id, content)
    \/ \E id \in ConversationIds, queryResponse \in QueryResponses :
            ConversationManager_addAssistantMessage(id, queryResponse)
    \/ ConversationManager_clearAll

SpecStore ==
    InitStore /\ [][NextStore]_vars

\* The model responses without thoughts that request declared tools only.
DeclaredResponses(r) ==
    {resp \in ModelResponses(r) :
        /\ resp.thoughts = <<>>
        /\ CountDeclared(resp.functionCalls) = Len(resp.functionCalls)}

\* The orchestrator with upstream services that may never answer: an
\* answer (AgentReturn) is not bound to happen, a timeout is.
NextTimeouts ==
    \/ \E r \in OneRequest, body \in QueryBodies :
            PostQuery(r, body[1], body[2], NoId)
    \/ \E r \in OneRequest : \E resp \in DeclaredResponses(r) : ChatResponse(r, resp)
    \/ \E r \in OneRequest : ChatFailure(r)
    \/ \E r \in OneRequest, i \in 1..MaxBatch, upstream \in UpstreamOutcomes :
            AgentReturn(r, i, upstream)
    \/ \E r \in OneRequest, i \in 1..MaxBatch : RequestTimeout(r, i)
    \/ \E r \in OneRequest : SendFunctionResponses(r)

\* The chat provider answers or fails every call, a timer that was set
\* fires, and the event loop runs the continuation of a resolved promise.
FairTimeouts ==
    \A r \in OneRequest :
        /\ WF_vars((\E resp \in DeclaredResponses(r) : ChatResponse(r, resp)) \/ ChatFailure(r))
        /\ WF_vars(SendFunctionResponses(r))
        /\ \A i \in 1..MaxBatch : WF_vars(RequestTimeout(r, i))

SpecTimeouts ==
    Init /\ [][NextTimeouts]_vars /\ FairTimeouts

\* The most messages of a conversation a request that overlaps is posted on.
MaxOverlapMessages ==
    4

\* The texts of requests that overlap: a question and the /clear command.
OverlapQueries ==
    {"Population of Tokyo?", "/clear"}

\* POST /api/query naming a conversation of fewer than MaxOverlapMessages
\* messages.
PostQueryOverlapping(r, query, conversationId) ==
    /\ MessagesBelow(conversationId, MaxOverlapMessages)
    /\ PostQueryHandler(r, "string", query, conversationId)

\* The model answers a query at once with the one text.
OverlapResponses(r) ==
    {resp \in FinalResponses(r) : resp.text = "Rome."}

\* Two requests of POST /api/query served at the same time, each naming a
\* conversation, beside the creation of conversations; a conversation is
\* removed by '/clear' or by the cleanup of a creation.
NextOverlap ==
    \/ \E r \in Requests, query \in OverlapQueries, conversationId \in ConversationIds :
            PostQueryOverlapping(r, query, conversationId)
    \/ \E r \in Requests : \E resp \in OverlapResponses(r) : ChatResponse(r, resp)
    \/ \E r \in Requests : ChatFailure(r)
    \/ PostConversations("")

SpecOverlap ==
    Init /\ [][NextOverlap]_vars

\* One request at a time with every command of the reflexive mode as its
\* text, beside the creation and the deletion of conversations.
NextReflexive ==
    \/ \E r \in OneRequest, query \in ReflexiveQueries,
            conversationId \in ConversationIds \cup {NoId} :
                PostQuery(r, "string", query, conversationId)
    \/ \E r \in OneRequest : \E resp \in OverlapResponses(r) : ChatResponse(r, resp)
    \/ \E r \in OneRequest : ChatFailure(r)
    \/ PostConversations("")
    \/ \E id \in ConversationIds : DeleteConversation(id)

SpecReflexive ==
    Init /\ [][NextReflexive]_vars

(***************************************************************************)
(* Claims                                                                  *)
(***************************************************************************)
\* part occurs in whole as a contiguous run of fragments.
Within(part, whole) ==
    \E i \in 0..(Len(whole) - Len(part)) : \A j \in 1..Len(part) : whole[i + j] = part[j]

\* The run is past a tool round: its function responses have been sent and
\* functionCalls, settled still are those of that round.
ToolResultsSent(r) ==
    run[r].pc = "chat" /\ run[r].sent.kind = "functionResponses"

\* C1: in every run of executeQuery at most 10 chat.sendMessage calls are
\* issued, whatever the model answers.
C1_AtMostTenChatCalls ==
    \A r \in Requests : run[r].chatCalls <= MAX_TURNS

\* C2: the function responses sent back after a turn with N function calls
\* are N, and the i-th carries the name and the outcome (result or error) of
\* the i-th call, whatever the order in which the calls completed and
\* whichever of them threw.
C2_ResultsPairedByPosition ==
    \A r \in Requests :
        ToolResultsSent(r) =>
            /\ Len(run[r].sent.parts) = Len(run[r].functionCalls)
            /\ \A i \in 1..Len(run[r].functionCalls) :
                /\ run[r].sent.parts[i].name = run[r].functionCalls[i].name
                /\ run[r].sent.parts[i].kind =
                        (IF run[r].settled[i].ok THEN "result" ELSE "error")
                /\ run[r].sent.parts[i].value = run[r].settled[i].text

\* Two calls of different tools both returned, the second before the first,
\* and their responses were sent.
C2_Witness ==
    \E r \in Requests :
        /\ ToolResultsSent(r)
        /\ Len(run[r].functionCalls) = 2
        /\ run[r].functionCalls[1].name # run[r].functionCalls[2].name
        /\ run[r].settled[1].ok /\ run[r].settled[2].ok
        /\ Len(run[r].agentCalls) = 2
        /\ run[r].agentCalls[1].agent = run[r].functionCalls[2].name

\* The verdict of the validator on a query string, as the claims state it.
ParsesAndHasNoKeyword(q) ==
    /\ parse(q).ok
    /\ \A k \in 1..Len(DANGEROUS_KEYWORDS) :
            ~includes(toUpperCase(Chars(q)), Chars(DANGEROUS_KEYWORDS[k]))

\* The i-th function call of the run is a query_wikidata call that ended
\* with the error of a failed validation.
ValidationError(r, i) ==
    /\ run[r].functionCalls[i].name = "query_wikidata"
    /\ run[r].functionResponses[i].kind = "error"
    /\ run[r].functionResponses[i].value[1] = "SPARQL validation failed: "

\* C3: a query_wikidata call whose query fails validation sends no request
\* to the Wikidata endpoint and yields an error result that contains the
\* validation reason; every query sent to the endpoint has passed validation.
C3_NoRequestWithoutValidation ==
    \A r \in Requests :
        /\ \A q \in run[r].endpointQueries : ParsesAndHasNoKeyword(q)
        /\ run[r].pc \in {"tools", "chat"} =>
            \A i \in 1..Len(run[r].functionCalls) :
                LET call == run[r].functionCalls[i]
                IN  call.name = "query_wikidata" /\ ~ParsesAndHasNoKeyword(call.args) =>
                        /\ call.args \notin run[r].endpointQueries
                        /\ run[r].functionResponses[i].kind = "error"
                        /\ Within(validate(call.args).error,
                                  run[r].functionResponses[i].value)
                        /\ run[r].settled[i] # Pending

\* A turn holds a query that failed validation beside one that was sent.
C3_Witness ==
    \E r \in Requests :
        /\ run[r].pc = "tools"
        /\ Len(run[r].functionCalls) = 2
        /\ ValidationError(r, 1)
        /\ run[r].functionCalls[2].name = "query_wikidata"
        /\ run[r].functionCalls[2].args \in run[r].endpointQueries

\* C4: validate passes exactly the query strings that parse and whose
\* upper-cased text contains none of DELETE, INSERT, DROP, CREATE, CLEAR,
\* LOAD; seen on every query_wikidata call a run dispatched.
C4_ValidExactlyWhenParsesAndNoKeyword ==
    \A r \in Requests :
        run[r].pc \in {"tools", "chat"} =>
            \A i \in 1..Len(run[r].functionCalls) :
                run[r].functionCalls[i].name = "query_wikidata" =>
                    (~ValidationError(r, i) <=>
                        ParsesAndHasNoKeyword(run[r].functionCalls[i].args))

\* A query that parses was rejected for a keyword that only its upper-cased
\* text contains.
C4_Witness ==
    \E r \in Requests :
        /\ run[r].pc = "tools"
        /\ \E i \in 1..Len(run[r].functionCalls) :
            /\ ValidationError(r, i)
            /\ parse(run[r].functionCalls[i].args).ok
            /\ \A k \in 1..Len(DANGEROUS_KEYWORDS) :
                ~includes(Chars(run[r].functionCalls[i].args), Chars(DANGEROUS_KEYWORDS[k]))

\* C5: only read-only queries (SELECT, ASK, DESCRIBE, CONSTRUCT) are sent to
\* the Wikidata endpoint.
C5_OnlyReadOnlyQueriesSent ==
    \A r \in Requests :
        \A q \in run[r].endpointQueries :
            parse(q).op \in {"SELECT", "ASK", "DESCRIBE", "CONSTRUCT"}

\* C6: whenever the response received from the chat session has no function
\* call, executeQuery returns with that response's text as the answer.
C6_NoFunctionCallsIsFinalAnswer ==
    \A r \in Requests :
        run[r].response # NoResponse /\ Len(run[r].response.functionCalls) = 0 =>
            /\ run[r].pc = "returned"
            /\ run[r].returned.answer = run[r].response.text

\* C7: when the first response has no function call, executeQuery ends
\* after one chat call with that text as the answer and no agent call.
C7_FirstResponseFinal ==
    \A r \in Requests :
        run[r].turn = 1 /\ Len(run[r].response.functionCalls) = 0 =>
            /\ run[r].pc = "returned"
            /\ run[r].chatCalls = 1
            /\ run[r].returned.answer = run[r].response.text
            /\ run[r].returned.agentCalls = <<>>
            /\ run[r].functionResponses = <<>>
            /\ run[r].endpointQueries = {}

C7_Witness ==
    \E r \in Requests :
        /\ run[r].turn = 1
        /\ run[r].response.functionCalls = <<>>
        /\ run[r].response.text = "Tokyo has about 14 million people."
        /\ run[r].pc = "returned"

\* C8: when a knowledge-agent call throws an error with message m beside a
\* sibling that returns, the failed call yields the error result m, the
\* sibling keeps its result, executeQuery does not throw, and both results
\* are sent to the chat session as the next turn.
C8_AgentFailureIsolated ==
    \A r \in Requests :
        /\ run[r].pc = "thrown" => run[r].error = ChatError
        /\ run[r].pc \in {"tools", "chat"} =>
            \A i \in 1..Len(run[r].functionCalls) :
                run[r].settled[i] # Pending =>
                    run[r].functionResponses[i] =
                        [name |-> run[r].functionCalls[i].name,
                         kind |-> IF run[r].settled[i].ok THEN "result" ELSE "error",
                         value |-> run[r].settled[i].text]
        /\ (/\ run[r].pc = "tools"
            /\ \A i \in 1..Len(run[r].functionCalls) : run[r].settled[i] # Pending)
                => ENABLED SendFunctionResponses(r)
        /\ ToolResultsSent(r) => run[r].sent.parts = run[r].functionResponses

\* The Wikipedia agent threw after its request, the sibling returned, and
\* both results were sent.
C8_Witness ==
    \E r \in Requests :
        /\ ToolResultsSent(r)
        /\ Len(run[r].functionCalls) = 2
        /\ run[r].functionCalls[1].name = "get_wikipedia_summary"
        /\ ~run[r].settled[1].ok
        /\ run[r].sent.parts[1].kind = "error"
        /\ run[r].settled[2].ok
        /\ run[r].sent.parts[2].kind = "result"

\* C9: when a chat call fails, executeQuery throws without a result and
\* POST /api/query answers 500 with {success: false, error: the message}.
C9_ChatFailureIs500 ==
    \A r \in Requests :
        run[r].pc = "thrown" =>
            /\ run[r].returned = NoQueryResponse
            /\ handler[r].pc = "responded"
            /\ handler[r].status = 500
            /\ handler[r].body.success = "false"
            /\ handler[r].body.error = run[r].error
            /\ ~handler[r].body.hasData

\* A chat call that carried function responses failed, for a request of a
\* conversation.
C9_Witness ==
    \E r \in Requests :
        /\ run[r].pc = "thrown"
        /\ run[r].chatCalls >= 2
        /\ run[r].sent.kind = "functionResponses"
        /\ handler[r].conversation # NoId

\* C10: when the turn budget is exhausted, executeQuery returns the answer
\* 'Query processing incomplete' with the thoughts and agent calls so far
\* and POST /api/query reports it with success: true.
C10_IncompleteIsSuccess ==
    \A r \in Requests :
        run[r].pc = "returned" /\ run[r].returned.answer = "Query processing incomplete" =>
            /\ run[r].returned.thoughts = run[r].thoughts
            /\ run[r].returned.agentCalls = run[r].agentCalls
            /\ handler[r].pc = "responded"
            /\ handler[r].status = 200
            /\ handler[r].body.success = "true"
            /\ handler[r].body.data = run[r].returned

(***************************************************************************)
(* Claims about the ConversationManager.                                   *)
(***************************************************************************)
\* The <<id, updatedAt>> pairs of the conversations of a Map.
Stamps(convs) ==
    {<<convs[i].id, convs[i].updatedAt>> : i \in 1..Len(convs)}

\* The first line the last logging call wrote is that of a cleanup.
CleanedUp ==
    /\ Len(log) > 0
    /\ log[1][1] = "Cleaned up "

\* C11: a createConversation call that takes the store above maxConversations
\* leaves exactly maxConversations conversations, all of them from the store
\* with the new one added, and no evicted conversation has an updatedAt
\* later than that of a retained one.
C11_EvictionKeepsMostRecent ==
    [][(nextId' = nextId + 1 /\ Len(conversations) + 1 > maxConversations) =>
            LET before == Stamps(conversations) \cup {<<nextId, now'>>}
                after == Stamps(conversations')
            IN  /\ Len(conversations') = maxConversations
                /\ Cardinality(after) = maxConversations
                /\ after \subseteq before
                /\ \A evicted \in before \ after, retained \in after :
                        evicted[2] <= retained[2]]_vars

\* A create took the store above its capacity, and the first conversation
\* was retained over the second, which was created after it.
C11_Witness ==
    /\ CleanedUp
    /\ Len(conversations) = maxConversations
    /\ has(conversations, 1)
    /\ ~has(conversations, 2)

\* C12: in every reachable state of the store, after any sequence of create,
\* append, delete and clear-all operations, it holds at most
\* maxConversations conversations.
C12_AtMostMaxConversations ==
    Len(conversations) <= maxConversations

\* More conversations were created than the store keeps, and it is full.
C12_Witness ==
    /\ nextId - 1 > maxConversations
    /\ Len(conversations) = maxConversations

\* The last message of conversation i after a step that appended to it.
Appended(i) ==
    conversations'[i].messages[Len(conversations'[i].messages)]

\* A step that appended an assistant message to the i-th conversation.
AppendsAssistantMessage(i) ==
    /\ Len(conversations') = Len(conversations)
    /\ conversations'[i].id = conversations[i].id
    /\ Len(conversations'[i].messages) = Len(conversations[i].messages) + 1
    /\ Appended(i).role = "assistant"

\* C13: addAssistantMessage on an existing conversation adds 1 to its
\* totalQueries and the latencyMs of the appended query response to its
\* totalLatencyMs, and changes the metadata of no other conversation.
C13_AssistantMessageUpdatesMetadata ==
    [][\A i \in 1..Len(conversations) :
            AppendsAssistantMessage(i) =>
                /\ conversations'[i].metadata.totalQueries =
                        conversations[i].metadata.totalQueries + 1
                /\ conversations'[i].metadata.totalLatencyMs =
                        conversations[i].metadata.totalLatencyMs
                            + Appended(i).queryResponse.latencyMs
                /\ \A j \in 1..Len(conversations) :
                        j # i => conversations'[j].metadata = conversations[j].metadata]_vars

\* A conversation holds two assistant messages of different latencies and
\* their sum.
C13_Witness ==
    \E i \in 1..Len(conversations) :
        LET conv == conversations[i]
        IN  /\ Len(conv.messages) = 2
            /\ conv.messages[1].role = "assistant" /\ conv.messages[2].role = "assistant"
            /\ conv.messages[1].queryResponse.latencyMs
                    # conv.messages[2].queryResponse.latencyMs
            /\ conv.metadata.totalQueries = 2
            /\ conv.metadata.totalLatencyMs =
                    conv.messages[1].queryResponse.latencyMs
                        + conv.messages[2].queryResponse.latencyMs

\* The indices of the user messages of a conversation.
UserMessages(conv) ==
    {k \in 1..Len(conv.messages) : conv.messages[k].role = "user"}

\* The content of the first user message of a conversation that has one.
FirstUserContent(conv) ==
    conv.messages[CHOOSE k \in UserMessages(conv) :
                        \A m \in UserMessages(conv) : k <= m].content

\* C19: the title of a conversation that received user messages derives
\* from the content of the first of them only: the content itself when it
\* has at most 50 characters, otherwise its first 47 characters followed by
\* '...'; it never exceeds 50 characters.
C19_TitleFromFirstUserMessage ==
    \A i \in 1..Len(conversations) :
        LET conv == conversations[i]
            first == Chars(FirstUserContent(conv))
        IN  UserMessages(conv) # {} =>
                /\ Len(conv.title) <= 50
                /\ Len(first) <= 50 => conv.title = first
                /\ Len(first) > 50 =>
                        /\ Len(conv.title) = 50
                        /\ \A k \in 1..47 : conv.title[k] = first[k]
                        /\ \A k \in 48..50 : conv.title[k] = "."

\* A conversation created with the title 'Chat' received a message of 51
\* characters and then one of 50: its title is the truncated first one.
C19_Witness ==
    \E i \in 1..Len(conversations) :
        LET conv == conversations[i]
        IN  /\ Len(log) = 1
            /\ log[1] = <<"Created conversation: ", Digit(conv.id), " - ">> \o Chars("Chat")
            /\ Len(conv.messages) = 2
            /\ UserMessages(conv) = {1, 2}
            /\ Len(Chars(conv.messages[1].content)) = 51
            /\ Len(Chars(conv.messages[2].content)) = 50
            /\ Len(conv.title) = 50
            /\ conv.title[50] = "."

\* C20: GET /api/conversations, which answers with listConversations, lists
\* every conversation of the store exactly once, ordered by updatedAt
\* descending, and does not modify the store.
C20_ListedByUpdatedAtDescending ==
    [][(reply' # reply /\ reply'.route = "GET /api/conversations") =>
            /\ conversations' = conversations
            /\ Len(reply'.list) = Len(conversations)
            /\ \A i \in 1..Len(conversations) :
                    Cardinality({n \in 1..Len(reply'.list) :
                        reply'.list[n] = Summary(conversations[i])}) = 1
            /\ \A m, n \in 1..Len(reply'.list) :
                    m < n => reply'.list[m].updatedAt >= reply'.list[n].updatedAt]_vars

\* Two conversations were listed, and the one created first came first
\* because it received a message after the other was created.
C20_Witness ==
    /\ reply.route = "GET /api/conversations"
    /\ Len(reply.list) = 2
    /\ reply.list[1].id < reply.list[2].id
    /\ reply.list[1].messageCount > 0
    /\ reply.list[1].updatedAt > reply.list[2].updatedAt

(***************************************************************************)
(* Claims about the HTTP responses.                                        *)
(***************************************************************************)
\* The identifiers of the conversations of a Map.
Ids(convs) ==
    {convs[i].id : i \in 1..Len(convs)}

\* A step in which POST /api/query took up request r, naming a conversation
\* the store does not hold and carrying a query text.
QueryOnUnknownConversation(r) ==
    /\ handler[r].pc \in {"idle", "responded"}
    /\ handler'[r] # handler[r]
    /\ handler'[r].query # ""
    /\ handler'[r].conversationId # NoId
    /\ ~has(conversations, handler'[r].conversationId)

\* A step in which one of the endpoints on /api/conversations/:id answered a
\* request that names a conversation the store does not hold.
EndpointOnUnknownConversation ==
    /\ reply' # reply
    /\ reply'.route \in {"GET /api/conversations/:id",
                         "GET /api/conversations/:id/stats",
                         "DELETE /api/conversations/:id"}
    /\ ~has(conversations, reply'.id)

\* C14: a request that names an unknown conversation is answered with 404
\* and creates no conversation: POST /api/query with any query text, GET
\* /api/conversations/:id, GET /api/conversations/:id/stats and DELETE
\* /api/conversations/:id.
C14_UnknownConversationIs404 ==
    [][/\ \A r \in Requests :
            QueryOnUnknownConversation(r) =>
                /\ handler'[r].pc = "responded"
                /\ handler'[r].status = 404
                /\ Ids(conversations') \subseteq Ids(conversations)
       /\ EndpointOnUnknownConversation =>
                /\ reply'.status = 404
                /\ Ids(conversations') \subseteq Ids(conversations)]_vars

\* The body has an explicit success boolean, and a failure status comes
\* with success:false and an error message.
WellFormed(status, body) ==
    /\ body.success \in {"true", "false"}
    /\ status \in {400, 404, 500} => body.success = "false" /\ body.error # <<>>

\* C15: every HTTP response of the server is a JSON object with an explicit
\* success boolean, and every failure response (400, 404, 500) carries
\* success:false and an error message.
C15_EveryResponseHasSuccess ==
    /\ \A r \in Requests :
            handler[r].pc = "responded" => WellFormed(handler[r].status, handler[r].body)
    /\ reply # NoReply => WellFormed(reply.status, reply.body)

(***************************************************************************)
(* Claims about the order of the steps of executeQuery.                    *)
(***************************************************************************)
\* The invocations of the current turn whose callbacks have not returned.
Running(r) ==
    {i \in 1..Len(run[r].settled) : run[r].settled[i] = Pending}

\* C16: agentCalls holds one (invocation, result) pair for every tool
\* invocation the loop executed, in invocation order: a pair is pushed only
\* when the pairs of the earlier invocations of its turn have been, whatever
\* the order in which the calls complete, and at the return there are as
\* many pairs as invocations.
C16_AgentCallsInInvocationOrder ==
    [][\A r \in Requests :
            /\ Len(run'[r].agentCalls) = Len(run[r].agentCalls) + 1 =>
                    \A i \in Running(r) :
                        run'[r].settled[i] # Pending =>
                            \A j \in Running(r) : j >= i
            /\ run'[r].pc = "returned" =>
                    Len(run'[r].agentCalls) = run'[r].invoked]_vars

\* C18: chat calls and tool rounds alternate: function responses are sent
\* only when every invocation of the turn has produced its result, no
\* invocation is running while a chat call is pending, and invocations
\* start only in the step that receives the response requesting them.
C18_ChatAndToolsAlternate ==
    [][\A r \in Requests :
            /\ run'[r].chatCalls = run[r].chatCalls + 1 /\ run[r].pc = "tools" =>
                    /\ Running(r) = {}
                    /\ Len(run'[r].sent.parts) = Len(run[r].functionCalls)
            /\ run'[r].pc = "chat" =>
                    \A i \in 1..Len(run'[r].settled) : run'[r].settled[i] # Pending
            /\ run'[r].pc = "tools" /\ run[r].pc # "tools" =>
                    /\ run[r].pc = "chat"
                    /\ run'[r].chatCalls = run[r].chatCalls
                    /\ run'[r].functionCalls = run'[r].response.functionCalls]_vars

\* The second tool round of a run is under way: the second chat call was
\* answered with two function calls, one of them still running.
C18_Witness ==
    \E r \in Requests :
        /\ run[r].pc = "tools"
        /\ run[r].chatCalls = 2
        /\ Len(run[r].functionCalls) = 2
        /\ Cardinality(Running(r)) = 1

\* C17: every tool invocation dispatched by the loop eventually yields a
\* tool result even when the upstream service never responds, so every
\* turn's fan-in completes and executeQuery eventually returns or throws,
\* provided the chat provider responds.
C17_EveryRunEnds ==
    \A r \in Requests :
        (run[r].pc \in {"chat", "tools"}) ~> (run[r].pc \in {"returned", "thrown"})

(***************************************************************************)
(* Claims about the reasons of the validator and about unknown tools.      *)
(***************************************************************************)
\* The reason of a failed validation names keyword k: it is the policy
\* reason of validate with that keyword.
NamesKeyword(reason, k) ==
    Within(<<"Dangerous SPARQL keyword detected: ", DANGEROUS_KEYWORDS[k]>>, reason)

\* The i-th function call of the run is a query_wikidata call whose callback
\* has returned.
ValidatedCall(r, i) ==
    /\ run[r].pc \in {"tools", "chat"}
    /\ i \in 1..Len(run[r].functionCalls)
    /\ run[r].functionCalls[i].name = "query_wikidata"
    /\ run[r].settled[i] # Pending

\* C21: for every query string whose upper-cased text contains a blocked
\* keyword, the failure reason of the validator names a keyword the string
\* contains, whether or not the string parses.
C21_KeywordNamedAlsoOnParseFailure ==
    \A r \in Requests :
        \A i \in 1..Len(run[r].functionCalls) :
            LET hits == KeywordHits(toUpperCase(Chars(run[r].functionCalls[i].args)))
            IN  ValidatedCall(r, i) /\ hits # {} =>
                    /\ run[r].functionResponses[i].kind = "error"
                    /\ \E k \in hits :
                            NamesKeyword(run[r].functionResponses[i].value, k)

\* C22: a query string that fails to parse and contains no blocked keyword
\* fails with the reason 'SPARQL syntax error: ' followed by the parser's
\* message, and a query string that parses and contains a blocked keyword
\* fails with the reason 'Dangerous SPARQL keyword detected: ' followed by
\* the first such keyword.
C22_SoleCausesReportedDistinctly ==
    \A r \in Requests :
        \A i \in 1..Len(run[r].functionCalls) :
            LET q == run[r].functionCalls[i].args
                hits == KeywordHits(toUpperCase(Chars(q)))
                reason == run[r].functionResponses[i].value
            IN  ValidatedCall(r, i) =>
                    /\ ~parse(q).ok /\ hits = {} =>
                            /\ run[r].functionResponses[i].kind = "error"
                            /\ Within(<<"SPARQL syntax error: ", parse(q).message>>, reason)
                            /\ ~Within(<<"Dangerous SPARQL keyword detected: ">>, reason)
                    /\ parse(q).ok /\ hits # {} =>
                            /\ run[r].functionResponses[i].kind = "error"
                            /\ \E k \in hits :
                                /\ NamesKeyword(reason, k)
                                /\ \A j \in hits : k <= j
                            /\ ~Within(<<"SPARQL syntax error: ">>, reason)

\* One turn holds a query that failed for its syntax alone beside a query
\* that failed for a keyword alone.
C22_Witness ==
    \E r \in Requests :
        /\ run[r].pc = "tools"
        /\ Len(run[r].functionCalls) = 2
        /\ ValidationError(r, 1) /\ ValidationError(r, 2)
        /\ ~parse(run[r].functionCalls[1].args).ok
        /\ KeywordHits(toUpperCase(Chars(run[r].functionCalls[1].args))) = {}
        /\ parse(run[r].functionCalls[2].args).ok
        /\ KeywordHits(toUpperCase(Chars(run[r].functionCalls[2].args))) # {}

\* The i-th function call of the run names no declared tool.
UnknownCall(r, i) ==
    /\ run[r].pc \in {"tools", "chat"}
    /\ i \in 1..Len(run[r].functionCalls)
    /\ run[r].functionCalls[i].name \notin DeclaredTools

\* C23: a function call whose name is none of the four declared tools calls
\* no agent (its callback never waits), has at its position the error result
\* 'Unknown function: <name>' under its name, is not pushed to agentCalls,
\* and the turn ends by sending the function responses, that error among
\* them, to the chat session.
C23_UnknownFunctionIsErrorResult ==
    [][\A r \in Requests :
        /\ \A i \in 1..Len(run'[r].functionCalls) :
            (UnknownCall(r, i))' =>
                /\ run'[r].settled[i] # Pending
                /\ run'[r].functionResponses[i] =
                        [name |-> run'[r].functionCalls[i].name,
                         kind |-> "error",
                         value |-> <<"Unknown function: ",
                                     run'[r].functionCalls[i].name>>]
                /\ \A j \in 1..Len(run'[r].agentCalls) :
                        run'[r].agentCalls[j].agent \in DeclaredTools
        /\ run[r].pc = "tools" /\ run'[r].pc # "tools"
            /\ (\E i \in 1..Len(run[r].functionCalls) : UnknownCall(r, i)) =>
                /\ run'[r].pc = "chat"
                /\ run'[r].chatCalls = run[r].chatCalls + 1
                /\ run'[r].sent.kind = "functionResponses"
                /\ run'[r].sent.parts = run[r].functionResponses
                /\ run'[r].agentCalls = run[r].agentCalls]_vars

\* The function responses of a turn that held an unknown function beside a
\* declared tool that returned have been sent to the chat session.
C23_Witness ==
    \E r \in Requests :
        /\ run[r].pc = "chat"
        /\ run[r].sent.kind = "functionResponses"
        /\ Len(run[r].functionCalls) = 2
        /\ UnknownCall(r, 1)
        /\ run[r].sent.parts[1].value = <<"Unknown function: ", "search_web">>
        /\ run[r].sent.parts[2].kind = "result"
        /\ Len(run[r].agentCalls) = 1

(***************************************************************************)
(* Claims about POST /api/query and the conversation it names.             *)
(***************************************************************************)
\* The conversations other than id, in their order.
Others(convs, id) ==
    SelectSeq(convs, LAMBDA conversation : conversation.id # id)

\* A step in which POST /api/query answered a request whose text starts
\* with '/clear' and which names the stored conversation id.
ClearsConversation(r, id) ==
    /\ handler[r].pc \in {"idle", "responded"}
    /\ handler'[r] # handler[r]
    /\ handler'[r].body.command = "clear"
    /\ handler'[r].conversationId = id
    /\ has(conversations, id)

\* The last request of lane r was a '/clear' naming conversation id, and the
\* last line of the console is that of the deletion of id.
Cleared(r, id) ==
    /\ id # NoId
    /\ handler[r].pc = "responded"
    /\ handler[r].body.command = "clear"
    /\ handler[r].conversationId = id
    /\ log = << <<"Deleted conversation: ", Digit(id)>> >>

\* C24: a POST /api/query whose text starts with '/clear' and that names a
\* stored conversation removes that conversation and no other, and every
\* later request that names it (POST /api/query, GET /api/conversations/:id,
\* GET /api/conversations/:id/stats, DELETE /api/conversations/:id) is
\* answered with 404.
C24_ClearedConversationIs404 ==
    [][\A id \in ConversationIds :
        /\ \A r \in Requests :
            ClearsConversation(r, id) =>
                /\ ~has(conversations', id)
                /\ conversations' = Others(conversations, id)
        /\ (\E c \in Requests : Cleared(c, id)) =>
            /\ \A r \in Requests :
                handler'[r] # handler[r] /\ handler'[r].conversationId = id
                    /\ handler'[r].query # "" =>
                        handler'[r].pc = "responded" /\ handler'[r].status = 404
            /\ reply' # reply /\ reply'.id = id
                /\ reply'.route \in {"GET /api/conversations/:id",
                                     "GET /api/conversations/:id/stats",
                                     "DELETE /api/conversations/:id"} =>
                    reply'.status = 404]_vars

\* C25: whatever POST /api/query requests were served on a conversation,
\* overlapping or failed ones among them, its messages alternate user,
\* assistant, starting with a user message, and each assistant message
\* directly follows the user message of its own request.
C25_MessagesAlternate ==
    \A c \in 1..Len(conversations) :
        LET messages == conversations[c].messages
        IN  \A i \in 1..Len(messages) :
                IF i % 2 = 1
                THEN messages[i].role = "user"
                ELSE /\ messages[i].role = "assistant"
                     /\ messages[i].queryResponse.query = messages[i - 1].content

\* C26: when executeQuery returns a result for a request that names a
\* conversation the store held when the request arrived, POST /api/query
\* answers 200 with success: true and that result, and the conversation
\* ends with the assistant message of the result, whatever was deleted,
\* cleared or created while the query was in flight.
C26_ReturnedResultIsAnswered ==
    [][\A r \in Requests :
        run[r].pc # "returned" /\ run'[r].pc = "returned"
            /\ handler[r].conversation # NoId =>
                /\ handler'[r].pc = "responded"
                /\ handler'[r].status = 200
                /\ handler'[r].body.success = "true"
                /\ handler'[r].body.data = run'[r].returned
                /\ has(conversations', handler[r].conversation)
                /\ LET messages ==
                        getConversation(conversations', handler[r].conversation).messages
                   IN  /\ messages # <<>>
                       /\ messages[Len(messages)].role = "assistant"
                       /\ messages[Len(messages)].queryResponse = run'[r].returned]_vars

(***************************************************************************)
(* Claims about createConversation and the metadata of a conversation.     *)
(***************************************************************************)
\* C27: the conversation createConversation returns is in the Map when the
\* call returns, also when the call cleans up and when conversations share
\* their updatedAt, and the call replaces no conversation the Map held: the
\* ones it keeps are unchanged.
C27_CreatedConversationIsStored ==
    [][nextId' # nextId =>
        /\ has(conversations', nextId)
        /\ getConversation(conversations', nextId).messages = <<>>
        /\ ~has(conversations, nextId)
        /\ \A i \in 1..Len(conversations') :
                conversations'[i].id # nextId =>
                    \E j \in 1..Len(conversations) : conversations[j] = conversations'[i]]_vars

\* The number of messages of a conversation with this role.
CountRole(conv, role) ==
    Cardinality({i \in 1..Len(conv.messages) : conv.messages[i].role = role})

\* C28: for every conversation of the store, metadata.totalQueries is the
\* number of its assistant messages, and with POST /api/query as the only
\* writer of messages the assistant messages are never more than the user
\* messages.
C28_TotalQueriesCountsAssistantMessages ==
    \A c \in 1..Len(conversations) :
        /\ conversations[c].metadata.totalQueries = CountRole(conversations[c], "assistant")
        /\ CountRole(conversations[c], "assistant") <= CountRole(conversations[c], "user")

\* A conversation holds the two exchanges of two requests that overlapped.
C28_Witness ==
    \E c \in 1..Len(conversations) :
        /\ conversations[c].metadata.totalQueries = 2
        /\ Len(conversations[c].messages) = 4
        /\ conversations[c].messages[2].role = "user"

(***************************************************************************)
(* Claims about the reflexive branch and the history of POST /api/query.   *)
(***************************************************************************)
\* The text is one of the commands of the reflexive mode: lower-cased and
\* trimmed it starts with the command.
IsCommand(query, command) ==
    startsWith(trim(toLowerCase(Chars(query))), Chars(command))

\* A step in which POST /api/query answered request r as reflexive.
AnswersReflexive(r) ==
    /\ handler[r].pc \in {"idle", "responded"}
    /\ handler'[r] # handler[r]
    /\ handler'[r].body.reflexive = "true"

AsHistory(messages) ==
    [i \in 1..Len(messages) |->
        [role |-> IF messages[i].role = "assistant" THEN "model" ELSE messages[i].role,
         text |-> messages[i].content]]

\* C30: the history POST /api/query passes to executeQuery is the message
\* list of the conversation as it was before the user message of this
\* request was appended, in order, with 'assistant' as 'model' and 'user'
\* kept; the current query is appended after it and is no part of it, and
\* the history stays as it is while the query is in flight, whatever is
\* appended to the conversation meanwhile.
C30_HistoryIsMessagesBefore ==
    [][\A r \in Requests :
        /\ handler[r].pc # "awaiting" /\ handler'[r].pc = "awaiting"
            /\ handler'[r].conversation # NoId =>
                LET before == getConversation(conversations, handler'[r].conversation).messages
                    after == getConversation(conversations', handler'[r].conversation).messages
                IN  /\ run'[r].history = AsHistory(before)
                    /\ Len(after) = Len(before) + 1
                    /\ after[Len(after)].role = "user"
                    /\ after[Len(after)].content = run'[r].userQuery
        /\ handler[r].pc = "awaiting" =>
                run'[r].history = run[r].history]_vars

\* A query is in flight whose history holds an answer of the model, and
\* another request has appended to its conversation since it began.
C30_Witness ==
    \E r \in Requests :
        /\ handler[r].pc = "awaiting"
        /\ has(conversations, handler[r].conversation)
        /\ \E i \in 1..Len(run[r].history) : run[r].history[i].role = "model"
        /\ Len(getConversation(conversations, handler[r].conversation).messages)
                > Len(run[r].history) + 1

====
